---- MODULE Spec2Model ----
(***************************************************************************)
(* A model of the harper grammar checker's wasm binding and of the core    *)
(* pieces it drives: the MDX pre-cleaner, number spelling and the          *)
(* SpelledNumbers rule, the LintGroup runner and its configuration, the    *)
(* overlap resolver, suggestion application and the CollapseIdentifiers    *)
(* parser adapter.                                                         *)
(***************************************************************************)
EXTENDS Integers, Sequences, FiniteSets, TLC

VARIABLES
    num,            \* spell_out_number: the argument
    spelled,        \* spell_out_number: the value returned (NotCalled before)
    document,       \* SpelledNumbers::lint: the document's token vector
    sn_lints,       \* SpelledNumbers::lint: the lints returned (NotCalled before)
    config,         \* Linter: self.lint_group.config, the stored LintGroupConfig
    last_ok,        \* history: the last payload value that deserialized (the default before)
    parse_failed,   \* history: the last set call's payload failed to deserialize
    doc,            \* Linter::lint: the document of the text the caller passes
    ret,            \* Linter: what the last call returned (NoCall before)
    mdx,            \* clean_mdx_content: the argument, a sequence of characters
    cleaned,        \* clean_mdx_content: the string returned (NotCalled before)
    as_text,        \* apply_suggestion: the argument text, a sequence of characters
    as_span,        \* apply_suggestion: the argument span
    as_suggestion,  \* apply_suggestion: the argument suggestion
    as_ret,         \* apply_suggestion: the outcome of the call (NotCalled before)
    source,         \* CollapseIdentifiers::parse: the argument, a sequence of characters
    dict,           \* CollapseIdentifiers: the words of self.dict
    parsed,         \* CollapseIdentifiers::parse: the tokens returned (NotCalled before)
    ug_tokens,      \* UseGenitive: the tokens of the document linted
    ug_lints,       \* UseGenitive: the lints returned (NotCalled before)
    inv_tokens,     \* Invert::matches: the token slice
    inv_inner,      \* Invert: the inner pattern
    inv_ret         \* Invert::matches: the length returned (NotCalled before)

vars == <<num, spelled, document, sn_lints, config, last_ok, parse_failed, doc, ret,
          mdx, cleaned, as_text, as_span, as_suggestion, as_ret,
          source, dict, parsed, ug_tokens, ug_lints, inv_tokens, inv_inner,
          inv_ret>>

numVars == <<num, spelled>>
snVars == <<document, sn_lints>>
linterVars == <<config, last_ok, parse_failed, doc, ret>>
mdxVars == <<mdx, cleaned>>
applyVars == <<as_text, as_span, as_suggestion, as_ret>>
collapseVars == <<source, dict, parsed>>
genitiveVars == <<ug_tokens, ug_lints>>
invertVars == <<inv_tokens, inv_inner, inv_ret>>

\* The value of a variable that holds the result of a call not made yet.
NotCalled == [tag |-> "NotCalled"]

\* Option<T> and the outcome of a panicking unwrap.
None == [tag |-> "None"]
Some(v) == [tag |-> "Some", val |-> v]
Panic == [tag |-> "Panic"]

(***************************************************************************)
(* Number-to-words: harper-core/src/linting/spelled_numbers.rs             *)
(***************************************************************************)

\* The largest argument the model passes to spell_out_number.
MaxNum == 1100

\* The numbers spelled by a literal arm of the match (lines 45-72).
LiteralNumbers == (0..20) \cup {30, 40, 50, 60, 70, 80, 90}

LiteralName(n) ==
    CASE n = 0 -> "zero" [] n = 1 -> "one" [] n = 2 -> "two" [] n = 3 -> "three"
      [] n = 4 -> "four" [] n = 5 -> "five" [] n = 6 -> "six" [] n = 7 -> "seven"
      [] n = 8 -> "eight" [] n = 9 -> "nine" [] n = 10 -> "ten"
      [] n = 11 -> "eleven" [] n = 12 -> "twelve" [] n = 13 -> "thirteen"
      [] n = 14 -> "fourteen" [] n = 15 -> "fifteen" [] n = 16 -> "sixteen"
      [] n = 17 -> "seventeen" [] n = 18 -> "eighteen" [] n = 19 -> "nineteen"
      [] n = 20 -> "twenty" [] n = 30 -> "thirty" [] n = 40 -> "forty"
      [] n = 50 -> "fifty" [] n = 60 -> "sixty" [] n = 70 -> "seventy"
      [] n = 80 -> "eighty" [] n = 90 -> "ninety"

\* `if num > 999 { return None; }`
OutOfRange_limit99(n) == n > 99

OutOfRange(n) == n > 999

\* `(num as f32).log10() as u32`: the truncated decimal logarithm. The
\* arguments that reach it (21..=999, no power of ten among them) are exact in
\* f32 and their logarithm is never within rounding of an integer.
Log10Trunc(n) ==
    IF n >= 1000 THEN 3 ELSE IF n >= 100 THEN 2 ELSE IF n >= 10 THEN 1 ELSE 0

Pow10(e) == IF e = 0 THEN 1 ELSE IF e = 1 THEN 10 ELSE IF e = 2 THEN 100 ELSE 1000

\* `let n = 10u64.pow((num as f32).log10() as u32);`
SplitBase(n) == Pow10(Log10Trunc(n))

\* `if num <= 99 { '-' } else { ' ' }`
Separator_flipped(n) == IF n <= 99 THEN " " ELSE "-"

Separator(n) == IF n <= 99 THEN "-" ELSE " "

\* The hundreds arm peeling one hundred per call.
RecursiveCalls_peelHundred(n) ==
    IF OutOfRange(n) \/ n \in LiteralNumbers THEN {}
    ELSE IF n % 100 = 0 THEN {n - 100}
    ELSE {(n \div SplitBase(n)) * SplitBase(n), n % SplitBase(n)}

\* The arguments of the calls spell_out_number(n) makes to itself: none in
\* the literal arms, hundred / 100 in the hundreds arm, parent and child in
\* the last arm.
RecursiveCalls(n) ==
    IF OutOfRange(n) \/ n \in LiteralNumbers THEN {}
    ELSE IF n % 100 = 0 THEN {n \div 100}
    ELSE {(n \div SplitBase(n)) * SplitBase(n), n % SplitBase(n)}

\* The depth probed before a recursion counts as unbounded.
DepthLimit == 6

\* The depth of the recursion of spell_out_number(n), the call on n counted
\* as the first; followed no deeper than limit calls.
RECURSIVE CallDepth(_, _)
CallDepth(n, limit) ==
    IF limit = 0 \/ RecursiveCalls(n) = {} THEN 1
    ELSE LET below == {CallDepth(m, limit - 1) : m \in RecursiveCalls(n)}
         IN  1 + (CHOOSE d \in below : \A x \in below : x <= d)

\* spell_out_number: an unwrap of None inside the recursion is a panic.
RECURSIVE spell_out_number(_)
spell_out_number(n) ==
    IF OutOfRange(n) THEN None
    ELSE IF n \in LiteralNumbers THEN Some(LiteralName(n))
    ELSE IF n % 100 = 0 THEN
        LET h == spell_out_number(n \div 100)
        IN  IF h.tag = "Some" THEN Some(h.val \o " hundred") ELSE Panic
    ELSE
        LET base == SplitBase(n)
            parent == (n \div base) * base
            child == n % base
            p == spell_out_number(parent)
            c == spell_out_number(child)
        IN  IF p.tag = "Some" /\ c.tag = "Some"
            THEN Some(p.val \o Separator(n) \o c.val)
            ELSE Panic

NumInit ==
    /\ num \in 0..MaxNum
    /\ spelled = NotCalled

NumIdle ==
    /\ num = 0
    /\ spelled = NotCalled

\* A call spell_out_number(num).
SpellOutNumber ==
    /\ spelled = NotCalled
    /\ spelled' = spell_out_number(num)
    /\ UNCHANGED <<num, snVars, linterVars, mdxVars, applyVars, collapseVars,
                 genitiveVars, invertVars>>

(***************************************************************************)
(* SpelledNumbers::lint: harper-core/src/linting/spelled_numbers.rs        *)
(***************************************************************************)

\* An f64 token value is whole + frac * 2^-53, frac counted in units of
\* 2^-53 (half of f64::EPSILON), up to MaxFrac units.
EpsilonUnits == 2
MaxWhole == 11
MaxFrac == 17
MaxTokens == 2

\* The spacing of f64 values around w (w >= 1), in units of 2^-53; below 1 the
\* values are denser than one unit.
RECURSIVE Ulp(_)
Ulp(w) == IF w = 0 THEN 1 ELSE IF w < 2 THEN 2 ELSE 2 * Ulp(w \div 2)

\* A number spell_out_number does not spell.
UnspellableNumber == 1000

\* The f64 values a Number token can carry, within the bounds.
F64Values ==
    {[whole |-> w, frac |-> f] :
        w \in (0..MaxWhole) \cup {UnspellableNumber}, f \in 0..MaxFrac}

Representable(v) == v.frac % Ulp(v.whole) = 0

NumberValues == {v \in F64Values : Representable(v)}

\* The tokens of a document: Number tokens carry a value, the others do not.
NumberToken(v) == [kind |-> "Number", value |-> v]
WordToken == [kind |-> "Word"]
SpaceToken == [kind |-> "Space"]

TokenKinds == {NumberToken(v) : v \in NumberValues} \cup {WordToken, SpaceToken}

\* Token i of a document spans the characters [i-1, i): spans are sorted and
\* cover the buffer.
TokenSpan(i) == [start |-> i - 1, end |-> i]

Documents == UNION {[1..n -> TokenKinds] : n \in 0..MaxTokens}

\* `(number - number.floor()).abs() < f64::EPSILON`
IsWholeNumber(v) == v.frac < EpsilonUnits

\* The guard without its second conjunct.
IsSmall_any(v) == v.whole >= 0

\* `number < 10.`
IsSmall(v) == v.whole < 10

\* `number as u64`: truncation toward zero.
AsU64(v) == v.whole

\* The body of the loop for one Number token: the lints it pushes.
NumberTokenLints(tok, i) ==
    IF IsWholeNumber(tok.value) /\ IsSmall(tok.value)
    THEN LET s == spell_out_number(AsU64(tok.value))
         IN  IF s.tag = "Some"
             THEN <<[span |-> TokenSpan(i), lint_kind |-> "Readability",
                     suggestions |-> <<[kind |-> "ReplaceWith", text |-> s.val]>>,
                     priority |-> 63]>>
             ELSE <<Panic>>
    ELSE <<>>

\* SpelledNumbers::lint over document.iter_numbers(), in token order.
RECURSIVE SpelledNumbersLintFrom(_, _)
SpelledNumbersLintFrom(toks, i) ==
    IF i > Len(toks) THEN <<>>
    ELSE (IF toks[i].kind = "Number" THEN NumberTokenLints(toks[i], i) ELSE <<>>)
         \o SpelledNumbersLintFrom(toks, i + 1)

SpelledNumbers_lint(toks) ==
    LET out == SpelledNumbersLintFrom(toks, 1)
    IN  IF \E k \in 1..Len(out) : out[k] = Panic THEN Panic ELSE Some(out)

SnInit ==
    /\ document \in Documents
    /\ sn_lints = NotCalled

SnIdle ==
    /\ document = <<>>
    /\ sn_lints = NotCalled

\* A call SpelledNumbers.lint(document).
SpelledNumbersLint ==
    /\ sn_lints = NotCalled
    /\ sn_lints' = SpelledNumbers_lint(document)
    /\ UNCHANGED <<document, numVars, linterVars, mdxVars, applyVars, collapseVars,
                 genitiveVars, invertVars>>

(***************************************************************************)
(* LintGroupConfig and LintGroup: harper-core/src/linting/lint_group.rs    *)
(***************************************************************************)

\* create_lint_group_config!(...): the rules in declaration order, each with
\* its default.
Rules == <<
    [name |-> "spelled_numbers", default |-> FALSE],
    [name |-> "an_a", default |-> TRUE],
    [name |-> "sentence_capitalization", default |-> FALSE],
    [name |-> "unclosed_quotes", default |-> TRUE],
    [name |-> "wrong_quotes", default |-> FALSE],
    [name |-> "long_sentences", default |-> TRUE],
    [name |-> "repeated_words", default |-> TRUE],
    [name |-> "spaces", default |-> FALSE],
    [name |-> "matcher", default |-> TRUE],
    [name |-> "correct_number_suffix", default |-> TRUE],
    [name |-> "number_suffix_capitalization", default |-> TRUE],
    [name |-> "multiple_sequential_pronouns", default |-> TRUE],
    [name |-> "linking_verbs", default |-> FALSE],
    [name |-> "avoid_curses", default |-> TRUE],
    [name |-> "terminating_conjunctions", default |-> TRUE],
    [name |-> "ellipsis_length", default |-> TRUE],
    [name |-> "dot_initialisms", default |-> TRUE],
    [name |-> "boring_words", default |-> FALSE],
    [name |-> "use_genitive", default |-> FALSE],
    [name |-> "that_which", default |-> TRUE],
    [name |-> "capitalize_personal_pronouns", default |-> TRUE] >>

\* `if self.spell_check.is_none() { self.spell_check = Some(true); }`
SpellCheckDefault == TRUE

\* The fields of LintGroupConfig, in declaration order: one per rule, then
\* spell_check.
FieldOrder == [i \in 1..(Len(Rules) + 1) |->
                  IF i <= Len(Rules) THEN Rules[i].name ELSE "spell_check"]

Fields == {FieldOrder[i] : i \in 1..Len(FieldOrder)}

\* The default fill_default_values gives each field.
FieldDefaults ==
    [f \in Fields |->
        IF f = "spell_check" THEN SpellCheckDefault
        ELSE LET i == CHOOSE k \in 1..Len(Rules) : Rules[k].name = f
             IN  Rules[i].default]

FieldDefault(f) == FieldDefaults[f]

\* #[derive(Default)]: every field None.
DefaultConfig == [f \in Fields |-> None]

\* fill_default_values on one field.
FilledField_allOn(cfg, f) == IF cfg[f] = None THEN Some(TRUE) ELSE cfg[f]

FilledField(cfg, f) == IF cfg[f] = None THEN Some(FieldDefault(f)) ELSE cfg[f]

\* LintGroupConfig::fill_default_values.
fill_default_values(cfg) == [f \in Fields |-> FilledField(cfg, f)]

\* A document is modelled by what each built-in rule's lint() returns on it:
\* a sequence of lints per rule. A lint's `rule` stands for the lint_kind and
\* message, which tell whose lint it is.
Lint(rule, start, end, priority) ==
    [rule |-> rule, span |-> [start |-> start, end |-> end], priority |-> priority]

RuleLint(rule, d) == d[rule]

\* `let mut config = self.config.clone(); config.fill_default_values();`
\* the stored config after the call, given the filled copy.
StoredConfigAfterLint_inPlace(stored, filled) == filled

StoredConfigAfterLint(stored, filled) == stored

\* `if config.<rule>.unwrap() { lints.append(&mut self.<rule>.lint(document)); }`
\* for the fields from i on, in declaration order.
RECURSIVE RunRulesFrom(_, _, _)
RunRulesFrom(filled, d, i) ==
    IF i > Len(FieldOrder) THEN <<>>
    ELSE (IF filled[FieldOrder[i]].val THEN RuleLint(FieldOrder[i], d) ELSE <<>>)
         \o RunRulesFrom(filled, d, i + 1)

\* LintGroup::lint: the lints returned and the stored config it leaves.
LintGroup_lint(stored, d) ==
    LET filled == fill_default_values(stored)
    IN  [lints |-> RunRulesFrom(filled, d, 1),
         config |-> StoredConfigAfterLint(stored, filled)]

(***************************************************************************)
(* remove_overlaps (harper-core, lib.rs): the overlap resolver             *)
(***************************************************************************)

\* Two spans overlap iff they share at least one character position.
overlaps_with(a, b) ==
    (IF a.start > b.start THEN a.start ELSE b.start)
        < (IF a.end < b.end THEN a.end ELSE b.end)

\* The sort key (span.start, span.end, priority): a before-or-equal b.
SortKeyLeq(a, b) ==
    \/ a.span.start < b.span.start
    \/ /\ a.span.start = b.span.start
       /\ \/ a.span.end < b.span.end
          \/ (a.span.end = b.span.end /\ a.priority <= b.priority)

\* Stable insertion of x into the sorted list.
RECURSIVE InsertSorted(_, _)
InsertSorted(sorted, x) ==
    IF sorted = <<>> THEN <<x>>
    ELSE LET last == sorted[Len(sorted)]
         IN  IF SortKeyLeq(last, x) THEN Append(sorted, x)
             ELSE Append(InsertSorted(SubSeq(sorted, 1, Len(sorted) - 1), x), last)

RECURSIVE SortLints(_)
SortLints(ls) ==
    IF ls = <<>> THEN <<>>
    ELSE InsertSorted(SortLints(SubSeq(ls, 1, Len(ls) - 1)), ls[Len(ls)])

\* One step of the scan: the kept list after candidate c. A candidate that
\* overlaps the last kept lint replaces it only with a lower priority number.
KeepStep(kept, c) ==
    IF kept = <<>> THEN <<c>>
    ELSE LET last == kept[Len(kept)]
         IN  IF ~overlaps_with(last.span, c.span) THEN Append(kept, c)
             ELSE IF c.priority < last.priority
                  THEN Append(SubSeq(kept, 1, Len(kept) - 1), c)
                  ELSE kept

RECURSIVE KeepScan(_, _, _)
KeepScan(sorted, i, kept) ==
    IF i > Len(sorted) THEN kept
    ELSE KeepScan(sorted, i + 1, KeepStep(kept, sorted[i]))

remove_overlaps(ls) == KeepScan(SortLints(ls), 1, <<>>)

(***************************************************************************)
(* The wasm Linter: harper-wasm/src/lib.rs                                 *)
(***************************************************************************)

\* The fields a payload of the model may mention: the first PayloadRules rules
\* and spell_check.
PayloadRules == 1
PayloadFields == {FieldOrder[i] : i \in 1..PayloadRules} \cup {"spell_check"}

\* A payload is malformed (no JSON object at all) or an object giving some
\* fields a JSON value: true, false, null, or a value of another type.
Malformed == [tag |-> "Malformed"]
JsonValues == {"true", "false", "null", "string"}
Object(o) == [tag |-> "Object", fields |-> o]
Payloads ==
    {Malformed} \cup
    {Object(o) : o \in UNION {[ks -> JsonValues] : ks \in SUBSET PayloadFields}}

Ok(v) == [tag |-> "Ok", val |-> v]
Err(msg) == [tag |-> "Err", msg |-> msg]

\* Option<bool> from a JSON value; a missing field is None.
FieldFromJson(o, f) ==
    IF f \notin DOMAIN o THEN None
    ELSE IF o[f] = "true" THEN Some(TRUE)
    ELSE IF o[f] = "false" THEN Some(FALSE)
    ELSE None

\* #[derive(Deserialize)] on LintGroupConfig: the whole value or an error.
Deserialize(payload) ==
    IF payload = Malformed THEN Err("expected value")
    ELSE IF \E f \in DOMAIN payload.fields : payload.fields[f] = "string"
    THEN Err("invalid type: string, expected a boolean")
    ELSE Ok([f \in Fields |-> FieldFromJson(payload.fields, f)])

\* #[derive(Serialize)] on LintGroupConfig: every field, null for None.
Serialize(cfg) ==
    Object([f \in Fields |->
               IF cfg[f] = None THEN "null"
               ELSE IF cfg[f].val THEN "true" ELSE "false"])

\* The fields of a payload that parse on their own, applied over cfg.
ConfigAfterFailedParse_partial(cfg, payload) ==
    IF payload = Malformed THEN cfg
    ELSE [f \in Fields |->
             IF f \in DOMAIN payload.fields /\ payload.fields[f] # "string"
             THEN FieldFromJson(payload.fields, f) ELSE cfg[f]]

\* `self.lint_group.config = ...map_err(|v| v.to_string())?;` on an error the
\* `?` returns before the assignment.
ConfigAfterFailedParse(cfg, payload) == cfg

\* set_lint_config_from_json / set_lint_config_from_object: the stored config
\* and the value returned.
set_lint_config(cfg, payload) ==
    LET r == Deserialize(payload)
    IN  IF r.tag = "Err"
        THEN [config |-> ConfigAfterFailedParse(cfg, payload), ret |-> Err(r.msg)]
        ELSE [config |-> r.val, ret |-> Ok("unit")]

\* Linter::lint without the overlap pass.
Linter_lint_noOverlapPass(cfg, d) ==
    LET g == LintGroup_lint(cfg, d)
    IN  [config |-> g.config, group_lints |-> g.lints, lints |-> g.lints]

\* Linter::lint: LintGroup::lint on the document, then remove_overlaps.
Linter_lint(cfg, d) ==
    LET g == LintGroup_lint(cfg, d)
    IN  [config |-> g.config, group_lints |-> g.lints,
         lints |-> remove_overlaps(g.lints)]

\* The documents of the Linter specification: every rule finds n lints, at
\* spans of their own.
MaxPerRule == 2
SamplePriority(f) == IF f = "use_genitive" THEN 31 ELSE 63
FieldIndexes == [f \in Fields |-> CHOOSE i \in 1..Len(FieldOrder) : FieldOrder[i] = f]
FieldIndex(f) == FieldIndexes[f]
SampleDoc(n) ==
    [f \in Fields |->
        [j \in 1..n |->
            LET at == (FieldIndex(f) - 1) * MaxPerRule + (j - 1)
            IN  Lint(f, at, at + 1, SamplePriority(f))]]
SampleDocs == {SampleDoc(n) : n \in 0..MaxPerRule}

\* The documents of the overlap specification: spell_check (on by default)
\* finds up to MaxLints lints with spans inside [0, MaxPos) and the other
\* rules find none.
MaxPos == 3
MaxLints == 3
Priorities == {31, 63}
Spans == {[start |-> a, end |-> b] : a \in 0..MaxPos, b \in 0..MaxPos}
TokenSpans == {sp \in Spans : sp.start < sp.end}
SpellCheckLints ==
    {[rule |-> "spell_check", span |-> sp, priority |-> p] :
        sp \in TokenSpans, p \in Priorities}
OverlapLintLists == UNION {[1..n -> SpellCheckLints] : n \in 0..MaxLints}
OverlapDoc(ls) == [f \in Fields |-> IF f = "spell_check" THEN ls ELSE <<>>]

\* Linter::new(): the default config; no call made yet.
NoCall == [op |-> "none"]

LinterNew ==
    /\ config = DefaultConfig
    /\ last_ok = DefaultConfig
    /\ parse_failed = FALSE
    /\ ret = NoCall

LinterIdle == LinterNew /\ doc = SampleDoc(0)

\* linter.set_lint_config_from_json(payload)
SetLintConfigFromJson(payload) ==
    LET r == set_lint_config(config, payload)
    IN  /\ config' = r.config
        /\ ret' = [op |-> "set_lint_config_from_json", result |-> r.ret]
        /\ last_ok' = IF Deserialize(payload).tag = "Ok"
                      THEN Deserialize(payload).val ELSE last_ok
        /\ parse_failed' = (Deserialize(payload).tag = "Err")
        /\ UNCHANGED <<doc, numVars, snVars, mdxVars, applyVars, collapseVars,
                 genitiveVars, invertVars>>

\* linter.set_lint_config_from_object(payload)
SetLintConfigFromObject(payload) ==
    LET r == set_lint_config(config, payload)
    IN  /\ config' = r.config
        /\ ret' = [op |-> "set_lint_config_from_object", result |-> r.ret]
        /\ last_ok' = IF Deserialize(payload).tag = "Ok"
                      THEN Deserialize(payload).val ELSE last_ok
        /\ parse_failed' = (Deserialize(payload).tag = "Err")
        /\ UNCHANGED <<doc, numVars, snVars, mdxVars, applyVars, collapseVars,
                 genitiveVars, invertVars>>

\* linter.get_lint_config_as_json()
GetLintConfigAsJson ==
    /\ ret' = [op |-> "get_lint_config_as_json", result |-> Serialize(config)]
    /\ UNCHANGED <<config, last_ok, parse_failed, doc, numVars, snVars, mdxVars, applyVars, collapseVars,
                 genitiveVars, invertVars>>

\* linter.lint(text), text the source of doc
LinterLint ==
    LET r == Linter_lint(config, doc)
    IN  /\ config' = r.config
        /\ ret' = [op |-> "lint", group_lints |-> r.group_lints, lints |-> r.lints]
        /\ UNCHANGED <<last_ok, parse_failed, doc, numVars, snVars, mdxVars, applyVars, collapseVars,
                 genitiveVars, invertVars>>

(***************************************************************************)
(* clean_mdx_content: harper-wasm/src/lib.rs                               *)
(***************************************************************************)

\* A string is a sequence of characters. A character is written as itself
\* or, where that reads badly, by a name: "nl" newline, "dq" double quote,
\* "bt" backtick, "e_acute" the letter U+00E9, "grin" the emoji U+1F600.
AsciiLetters == {"a", "b", "h", "p", "s", "t"}
Digits == {"5"}

\* str::len counts UTF-8 bytes.
Utf8Len(c) == IF c = "e_acute" THEN 2 ELSE IF c = "grin" THEN 4 ELSE 1

\* encode_utf16().count()
Utf16Len(c) == IF c = "grin" THEN 2 ELSE 1

\* \w, \s and \p{Emoji} (the Unicode property holds of the ASCII digits too).
IsWordChar(c) == c \in AsciiLetters \cup Digits \cup {"e_acute", "_"}
IsSpace(c) == c \in {" ", "nl"}
IsEmoji(c) == c \in {"grin"} \cup Digits

\* The character classes of the regexes.
InClass(class, c) ==
    CASE class = "not_rbracket" -> c # "]"
      [] class = "not_rparen" -> c # ")"
      [] class = "not_gt" -> c # ">"
      [] class = "not_dq" -> c # "dq"
      [] class = "not_bt" -> c # "bt"
      [] class = "not_space" -> ~IsSpace(c)
      [] class = "space" -> IsSpace(c)
      [] class = "word_dash" -> IsWordChar(c) \/ c = "-"
      [] class = "dash" -> c = "-"
      [] class = "email_local" ->
            c \in AsciiLetters \cup Digits \cup {".", "_", "%", "+", "-"}
      [] class = "email_domain" -> c \in AsciiLetters \cup Digits \cup {".", "-"}
      [] class = "ascii_letter" -> c \in AsciiLetters

\* The character at i, "eof" outside the string.
At(str, i) == IF i \in 1..Len(str) THEN str[i] ELSE "eof"

\* The last index of the longest run of class characters that starts at i
\* (i - 1 when there is none): a greedy class+ or class*.
RECURSIVE RunEnd(_, _, _)
RunEnd(class, str, i) ==
    IF i \in 1..Len(str) /\ InClass(class, str[i])
    THEN RunEnd(class, str, i + 1)
    ELSE i - 1

RECURSIVE Bytes(_)
Bytes(str) == IF str = <<>> THEN 0 ELSE Utf8Len(Head(str)) + Bytes(Tail(str))

\* " ".repeat(n); a negative n is a usize underflow.
Spaces(n) == IF n < 0 THEN <<"panic">> ELSE [i \in 1..n |-> " "]

\* `\[([^\]]+)\]\([^\)]+\)` at i: the index of the `]` that ends the text,
\* 0 when there is no match.
LinkTextEnd(str, i) ==
    LET a == RunEnd("not_rbracket", str, i + 1)
    IN  IF At(str, i) = "[" /\ a >= i + 1 /\ At(str, a + 1) = "]"
           /\ At(str, a + 2) = "("
           /\ RunEnd("not_rparen", str, a + 3) >= a + 3
           /\ At(str, RunEnd("not_rparen", str, a + 3) + 1) = ")"
        THEN a + 1 ELSE 0

\* The last index of the link match at i, 0 when there is none.
LinkEnd(str, i) ==
    IF LinkTextEnd(str, i) = 0 THEN 0
    ELSE RunEnd("not_rparen", str, LinkTextEnd(str, i) + 2) + 1

\* The first index from i on where three backticks start, 0 when none does.
RECURSIVE FenceFrom(_, _)
FenceFrom(str, i) ==
    IF i + 2 > Len(str) THEN 0
    ELSE IF str[i] = "bt" /\ str[i + 1] = "bt" /\ str[i + 2] = "bt" THEN i
    ELSE FenceFrom(str, i + 1)

\* `\s*```\s*[\s\S]*?\s*```\s*|\s*``````\s*[\s\S]*?\s*``````\s*` at i. The
\* first alternative matches wherever the second does (six backticks are an
\* empty fenced block) and is preferred, so the second never decides.
CodeBlockEnd(str, i) ==
    LET open == RunEnd("space", str, i) + 1
        close == FenceFrom(str, open + 3)
    IN  IF FenceFrom(str, open) = open /\ open >= 1 /\ close # 0
        THEN RunEnd("space", str, close + 3)
        ELSE 0

\* `<(/?[\w\-]+)([^>]*)>` at i: the last index of the tag name, 0 when there
\* is no match.
TagNameEnd(str, i) ==
    LET first == IF At(str, i + 1) = "/" THEN i + 2 ELSE i + 1
        last == RunEnd("word_dash", str, first)
    IN  IF At(str, i) = "<" /\ last >= first
           /\ At(str, RunEnd("not_gt", str, last + 1) + 1) = ">"
        THEN last ELSE 0

TagEnd(str, i) ==
    IF TagNameEnd(str, i) = 0 THEN 0
    ELSE RunEnd("not_gt", str, TagNameEnd(str, i) + 1) + 1

\* \b at i: exactly one of the characters around the position is a word
\* character.
WordBoundary(str, i) == IsWordChar(At(str, i - 1)) # IsWordChar(At(str, i))

\* `\b[\w\-]+="([^"]*)"` at i: the last index of the attribute name, 0 when
\* there is no match.
AttrNameEnd(str, i) ==
    LET last == RunEnd("word_dash", str, i)
    IN  IF WordBoundary(str, i) /\ last >= i
           /\ At(str, last + 1) = "=" /\ At(str, last + 2) = "dq"
           /\ At(str, RunEnd("not_dq", str, last + 3) + 1) = "dq"
        THEN last ELSE 0

AttrEnd(str, i) ==
    IF AttrNameEnd(str, i) = 0 THEN 0
    ELSE RunEnd("not_dq", str, AttrNameEnd(str, i) + 3) + 1

\* `(https?://[^\s]+)` at i.
UrlEnd(str, i) ==
    LET colon == IF At(str, i + 4) = "s" THEN i + 5 ELSE i + 4
    IN  IF At(str, i) = "h" /\ At(str, i + 1) = "t" /\ At(str, i + 2) = "t"
           /\ At(str, i + 3) = "p" /\ At(str, colon) = ":"
           /\ At(str, colon + 1) = "/" /\ At(str, colon + 2) = "/"
           /\ RunEnd("not_space", str, colon + 3) >= colon + 3
        THEN RunEnd("not_space", str, colon + 3) ELSE 0

\* `[a-zA-Z0-9._%+-]+@[a-zA-Z0-9.-]+\.[a-zA-Z]{2,}` at i: the greedy domain
\* gives back characters to the last dot that two or more letters follow.
EmailEnd(str, i) ==
    LET at == RunEnd("email_local", str, i) + 1
        run == RunEnd("email_domain", str, at + 1)
        dots == {k \in (at + 2)..run :
                    /\ str[k] = "."
                    /\ RunEnd("ascii_letter", str, k + 1) >= k + 2}
    IN  IF at > i /\ At(str, at) = "@" /\ dots # {}
        THEN RunEnd("ascii_letter", str,
                    (CHOOSE k \in dots : \A j \in dots : j <= k) + 1)
        ELSE 0

\* "`([^`]+)`" at i.
InlineCodeEnd(str, i) ==
    LET last == RunEnd("not_bt", str, i + 1)
    IN  IF At(str, i) = "bt" /\ last >= i + 1 /\ At(str, last + 1) = "bt"
        THEN last + 1 ELSE 0

\* `-{2,}` at i.
DashEnd(str, i) ==
    IF At(str, i) = "-" /\ At(str, i + 1) = "-" THEN RunEnd("dash", str, i) ELSE 0

\* The last index of the match of a step's regex at i, 0 when there is none.
MatchEnd(step, str, i) ==
    CASE step = "image" -> IF At(str, i) = "!" THEN LinkEnd(str, i + 1) ELSE 0
      [] step = "link" -> LinkEnd(str, i)
      [] step = "code_block" -> CodeBlockEnd(str, i)
      [] step = "tag" -> TagEnd(str, i)
      [] step = "attr" -> AttrEnd(str, i)
      [] step = "url" -> UrlEnd(str, i)
      [] step = "email" -> EmailEnd(str, i)
      [] step = "inline_code" -> InlineCodeEnd(str, i)
      [] step = "emoji" -> IF IsEmoji(At(str, i)) THEN i ELSE 0
      [] step = "dash" -> DashEnd(str, i)

\* The inline-code threshold: `content.len() <= 50`.
InlineCodeMax == 50

\* The number of spaces step 8 puts for an emoji.
EmojiBlank(c) == Utf16Len(c)

\* The replacement closure of a step for the match str[i..e].
RECURSIVE ReplaceAll(_, _, _)
Replacement(step, str, i, e) ==
    LET whole == SubSeq(str, i, e)
    IN  CASE step = "image" ->
                LET alt_text == SubSeq(str, i + 2, LinkTextEnd(str, i + 1) - 1)
                IN  <<" ", " ">> \o alt_text
                    \o Spaces(Bytes(whole) - Bytes(alt_text) - 2)
          [] step = "link" ->
                LET link_text == SubSeq(str, i + 1, LinkTextEnd(str, i) - 1)
                IN  <<" ">> \o link_text
                    \o Spaces(Bytes(whole) - Bytes(link_text) - 1)
          [] step = "tag" ->
                LET tag_name == SubSeq(str, i + 1, TagNameEnd(str, i))
                    attributes == SubSeq(str, TagNameEnd(str, i) + 1, e - 1)
                IN  Spaces(Bytes(tag_name) + 1)
                    \o ReplaceAll("attr", attributes, 1) \o <<" ">>
          [] step = "attr" ->
                LET value == SubSeq(str, AttrNameEnd(str, i) + 3, e - 1)
                IN  Spaces(Bytes(whole) - Bytes(value) - 2)
                    \o <<"dq">> \o value \o <<"dq">>
          [] step = "inline_code" ->
                LET content == SubSeq(str, i + 1, e - 1)
                IN  IF Bytes(content) <= InlineCodeMax
                       /\ \A k \in 1..Len(content) : content[k] # "nl"
                    THEN Spaces(Bytes(whole))
                    ELSE whole
          [] step = "emoji" -> Spaces(EmojiBlank(str[i]))
          [] OTHER -> Spaces(Bytes(whole))

\* Regex::replace_all from i on: the leftmost match, its replacement, then on
\* from the end of the match.
ReplaceAll(step, str, i) ==
    IF i > Len(str) THEN <<>>
    ELSE IF MatchEnd(step, str, i) = 0
         THEN <<str[i]>> \o ReplaceAll(step, str, i + 1)
         ELSE Replacement(step, str, i, MatchEnd(step, str, i))
              \o ReplaceAll(step, str, MatchEnd(step, str, i) + 1)

\* Steps 1 to 9, in order.
Steps == <<"image", "link", "code_block", "tag", "url", "email", "inline_code",
           "emoji", "dash">>

RECURSIVE CleanThrough(_, _)
CleanThrough(str, n) ==
    IF n = 0 THEN str ELSE ReplaceAll(Steps[n], CleanThrough(str, n - 1), 1)

clean_mdx_content(str) == CleanThrough(str, Len(Steps))

\* The texts of the model: up to MaxFragments fragments, one after another.
MaxFragments == 2
Fragments == {
    <<"a">>, <<" ">>, <<"nl">>, <<"e_acute">>, <<"grin">>, <<"5">>, <<"-", "-">>,
    <<"[", "a", "]", "(", "b", ")">>,
    <<"[", "a", "]", "(", "e_acute", ")">>,
    <<"[", "e_acute", "]", "(", "a", ")">>,
    <<"!", "[", "a", "]", "(", "b", ")">>,
    <<"!", "[", "a", "]", "(", "grin", ")">>,
    <<"bt", "bt", "bt", "a", "bt", "bt", "bt">>,
    <<"bt", "bt", "bt", "e_acute", "nl", "bt", "bt", "bt">>,
    <<"<", "b", ">">>, <<"<", "/", "b", ">">>, <<"<", "e_acute", ">">>,
    <<"<", "a", " ", "b", "=", "dq", "a", "dq", ">">>,
    <<"<", "a", " ", "b", "=", "dq", "e_acute", "dq", ">">>,
    <<"h", "t", "t", "p", ":", "/", "/", "a">>,
    <<"h", "t", "t", "p", "s", ":", "/", "/", "e_acute">>,
    <<"a", "@", "b", ".", "a", "b">>,
    <<"bt", "a", "bt">>, <<"bt", "e_acute", "bt">>, <<"bt", "a", "nl", "b", "bt">> }

RECURSIVE TextsOf(_)
TextsOf(n) ==
    IF n = 0 THEN {<<>>}
    ELSE TextsOf(n - 1) \cup {t \o f : t \in TextsOf(n - 1), f \in Fragments}

MdxInit ==
    /\ mdx \in TextsOf(MaxFragments)
    /\ cleaned = NotCalled

MdxIdle ==
    /\ mdx = <<>>
    /\ cleaned = NotCalled

\* A call clean_mdx_content(mdx).
CleanMdxContent ==
    /\ cleaned = NotCalled
    /\ cleaned' = Some(clean_mdx_content(mdx))
    /\ UNCHANGED <<mdx, numVars, snVars, linterVars, applyVars, collapseVars,
                 genitiveVars, invertVars>>

(***************************************************************************)
(* apply_suggestion: harper-wasm/src/lib.rs                                *)
(***************************************************************************)

MaxTextLen == 2

ApplyTexts == UNION {[1..n -> {"a", "b"}] : n \in 0..MaxTextLen}

\* The spans a caller can pass: indices up to one past the longest text.
ApplySpans ==
    {[start |-> a, end |-> b] : a \in 0..(MaxTextLen + 1), b \in 0..(MaxTextLen + 1)}

Remove == [kind |-> "Remove"]
ReplaceWith(chars) == [kind |-> "ReplaceWith", text |-> chars]
Suggestions == {Remove, ReplaceWith(<<"x">>), ReplaceWith(<<"x", "y">>)}

\* The span lies inside a buffer of n characters.
SpanInside(sp, n) == sp.start <= sp.end /\ sp.end <= n

\* The characters a suggestion puts in place of the span.
SuggestionChars(sugg) == IF sugg.kind = "Remove" THEN <<>> ELSE sugg.text

\* Suggestion::apply(span, &mut source): what it may leave in the buffer. It
\* returns no value the caller reads. Inside the buffer it replaces the span's
\* characters; outside the buffer it indexes past the end, which panics, or
\* returns with the part of the span that exists replaced.
Suggestion_apply(sugg, sp, buf) ==
    IF SpanInside(sp, Len(buf))
    THEN {Some(SubSeq(buf, 1, sp.start) \o SuggestionChars(sugg)
               \o SubSeq(buf, sp.end + 1, Len(buf)))}
    ELSE {Panic,
          Some(SubSeq(buf, 1, IF sp.start < Len(buf) THEN sp.start ELSE Len(buf))
               \o SuggestionChars(sugg))}

\* apply_suggestion(text, span, suggestion): the outcomes of a call. The
\* function's one return is `Ok(source.iter().collect())`.
apply_suggestion(text, sp, sugg) ==
    {IF o = Panic THEN Panic ELSE Ok(o.val) : o \in Suggestion_apply(sugg, sp, text)}

ApplyInit ==
    /\ as_text \in ApplyTexts
    /\ as_span \in {sp \in ApplySpans : sp.start <= sp.end}
    /\ as_suggestion \in Suggestions
    /\ as_ret = NotCalled

ApplyIdle ==
    /\ as_text = <<>>
    /\ as_span = [start |-> 0, end |-> 0]
    /\ as_suggestion = Remove
    /\ as_ret = NotCalled

\* A call apply_suggestion(as_text, as_span, as_suggestion).
ApplySuggestion ==
    /\ as_ret = NotCalled
    /\ as_ret' \in apply_suggestion(as_text, as_span, as_suggestion)
    /\ UNCHANGED <<as_text, as_span, as_suggestion, numVars, snVars, linterVars,
                   mdxVars, collapseVars, genitiveVars, invertVars>>

(***************************************************************************)
(* CollapseIdentifiers: harper-core/src/parsers/collapse_identifiers.rs    *)
(***************************************************************************)

MaxSourceLen == 6

\* The characters of the model's sources: a letter, the two case separators
\* and the space.
SourceChars == {"a", "_", "-", " "}
Sources == UNION {[1..n -> SourceChars] : n \in 0..MaxSourceLen}

Token(start, end, kind) == [span |-> [start |-> start, end |-> end], kind |-> kind]

\* The last index of the run of c that starts at i.
RECURSIVE CharRunEnd(_, _, _)
CharRunEnd(chars, i, c) ==
    IF i < Len(chars) /\ chars[i + 1] = c THEN CharRunEnd(chars, i + 1, c) ELSE i

\* The inner parser (PlainEnglish) from character i on: a word is a maximal
\* run of letters, a space token a run of spaces, each `_` or `-` a
\* punctuation token of its own. Spans are half-open and 0-based.
RECURSIVE Lex(_, _)
Lex(chars, i) ==
    IF i > Len(chars) THEN <<>>
    ELSE IF chars[i] \in {"a", " "}
    THEN <<Token(i - 1, CharRunEnd(chars, i, chars[i]),
                 IF chars[i] = "a" THEN "Word" ELSE "Space")>>
         \o Lex(chars, CharRunEnd(chars, i, chars[i]) + 1)
    ELSE <<Token(i - 1, i, IF chars[i] = "_" THEN "Underscore" ELSE "Hyphen")>>
         \o Lex(chars, i + 1)

inner_parse(chars) == Lex(chars, 1)

\* Token i of the vector (0-based, as in the code), a token of no kind
\* outside it.
TokenAt(toks, i) ==
    IF i \in 0..(Len(toks) - 1) THEN toks[i + 1] ELSE [kind |-> "none"]

\* TokenKind::is_case_separator: the underscore and the hyphen.
IsCaseSeparator(tok) == tok.kind \in {"Underscore", "Hyphen"}

\* then_one_or_more(case separator, word) from token i: the number of tokens
\* the greedy repetition takes.
RECURSIVE RepeatLen(_, _)
RepeatLen(toks, i) ==
    IF IsCaseSeparator(TokenAt(toks, i)) /\ TokenAt(toks, i + 1).kind = "Word"
    THEN 2 + RepeatLen(toks, i + 2)
    ELSE 0

\* WORD_OR_NUMBER with a repetition that stops after one separator and word.
WORD_OR_NUMBER_oneRepeat(toks, i) ==
    IF TokenAt(toks, i).kind = "Word" /\ RepeatLen(toks, i + 1) > 0 THEN 3 ELSE 0

\* WORD_OR_NUMBER.matches(&tokens[i..]): the tokens matched, 0 for no match.
WORD_OR_NUMBER(toks, i) ==
    IF TokenAt(toks, i).kind = "Word" /\ RepeatLen(toks, i + 1) > 0
    THEN 1 + RepeatLen(toks, i + 1)
    ELSE 0

\* PatternExt::find_all_matches: the windows [i, i + L) found left to right,
\* each search resuming after the last match.
RECURSIVE find_all_matches(_, _)
find_all_matches(toks, i) ==
    IF i >= Len(toks) THEN <<>>
    ELSE IF WORD_OR_NUMBER(toks, i) > 0
    THEN <<[start |-> i, end |-> i + WORD_OR_NUMBER(toks, i)]>>
         \o find_all_matches(toks, i + WORD_OR_NUMBER(toks, i))
    ELSE find_all_matches(toks, i + 1)

\* Span::get_content_string: the characters of a half-open span.
ContentString(chars, sp) == SubSeq(chars, sp.start + 1, sp.end)

\* The closure of `.map(...)`: the replacement for the match s.
ReplacementFor(toks, chars, s) ==
    LET char_span == [start |-> TokenAt(toks, s.start).span.start,
                      end |-> TokenAt(toks, s.end - 1).span.end]
    IN  [s |-> s.start, e |-> s.end,
         t |-> [span |-> char_span, kind |-> "Word"],
         st |-> ContentString(chars, char_span)]

\* The replacements without the dictionary filter.
Replacements_noFilter(toks, chars, words) ==
    LET all == find_all_matches(toks, 0)
    IN  [k \in 1..Len(all) |-> ReplacementFor(toks, chars, all[k])]

\* `.filter(|(_, _, _, st)| self.dict.contains_word_str(st))`
Replacements(toks, chars, words) ==
    LET all == find_all_matches(toks, 0)
    IN  SelectSeq([k \in 1..Len(all) |-> ReplacementFor(toks, chars, all[k])],
                  LAMBDA r : r.st \in words)

\* `(s + 1..=e)`: the indexes a replacement queues for removal.
RemovalIndexes(r) == (r.s + 1)..(r.e)

\* `tokens[s] = t` for every replacement.
WithReplacements(toks, reps) ==
    [k \in 1..Len(toks) |->
        IF \E j \in 1..Len(reps) : reps[j].s = k - 1
        THEN reps[CHOOSE j \in 1..Len(reps) : reps[j].s = k - 1].t
        ELSE toks[k]]

\* VecExt::remove_indices: the vector without the elements at the indexes
\* (0-based); an index past the end removes nothing.
remove_indices(toks, indexes) ==
    SelectSeq([k \in 1..Len(toks) |-> [i |-> k - 1, tok |-> toks[k]]],
              LAMBDA x : x.i \notin indexes)

\* CollapseIdentifiers::parse.
CollapseIdentifiers_parse(chars, words) ==
    LET toks == inner_parse(chars)
        reps == Replacements(toks, chars, words)
        removal_indexes == UNION {RemovalIndexes(reps[j]) : j \in 1..Len(reps)}
        kept == remove_indices(WithReplacements(toks, reps), removal_indexes)
    IN  [k \in 1..Len(kept) |-> kept[k].tok]

\* The strings of the runs Word (separator Word)+ inside a token vector, whole
\* runs and the runs inside them: what a dictionary of the model may hold.
RunStrings(toks, chars) ==
    {ContentString(chars, [start |-> TokenAt(toks, i).span.start,
                           end |-> TokenAt(toks, j).span.end]) :
        <<i, j>> \in {p \in (0..(Len(toks) - 1)) \X (0..(Len(toks) - 1)) :
                        /\ p[1] < p[2]
                        /\ TokenAt(toks, p[1]).kind = "Word"
                        /\ 1 + RepeatLen(toks, p[1] + 1) >= p[2] - p[1] + 1
                        /\ TokenAt(toks, p[2]).kind = "Word"}}

CollapseInit ==
    /\ source \in Sources
    /\ dict \in SUBSET RunStrings(inner_parse(source), source)
    /\ parsed = NotCalled

CollapseIdle ==
    /\ source = <<>>
    /\ dict = {}
    /\ parsed = NotCalled

\* A call CollapseIdentifiers::parse(source) with the dictionary dict.
CollapseParse ==
    /\ parsed = NotCalled
    /\ parsed' = Some(CollapseIdentifiers_parse(source, dict))
    /\ UNCHANGED <<source, dict, numVars, snVars, linterVars, mdxVars, applyVars,
                   genitiveVars, invertVars>>

(***************************************************************************)
(* Invert: harper-core/src/patterns/invert.rs                              *)
(* UseGenitive: harper-core/src/linting/use_genitive.rs                    *)
(***************************************************************************)

MaxDocTokens == 7

\* The words of the model's documents: the trigger words, the words of the
\* prelude in both cases, an adjective and a noun.
GenitiveWords == {"there", "they're", "Is", "is", "Were", "were", "big", "cats"}

Word(text) == [kind |-> "Word", text |-> text]

GenitiveTokenKinds ==
    {Word(w) : w \in GenitiveWords} \cup {[kind |-> "Space"], [kind |-> "Punctuation"]}

\* The kinds of the tokens of a document, in order: as a lexer produces
\* them, no word directly after a word and no space token directly after a
\* space token; the model's punctuation tokens stand alone as well.
DocumentShapes ==
    UNION {{sh \in [1..n -> {"Word", "Space", "Punctuation"}] :
                \A k \in 1..(n - 1) : sh[k + 1] # sh[k]} :
           n \in 0..MaxDocTokens}

\* The document of a shape, its words given by position.
DocumentOf(sh, words) ==
    [k \in 1..Len(sh) |-> IF sh[k] = "Word" THEN Word(words[k]) ELSE [kind |-> sh[k]]]

WordPositions(sh) == {k \in 1..Len(sh) : sh[k] = "Word"}

\* The word metadata the dictionary gives.
IsNoun(tok) == tok.kind = "Word" /\ tok.text = "cats"
IsAdjective(tok) == tok.kind = "Word" /\ tok.text = "big"

Lowercase(w) == IF w = "Is" THEN "is" ELSE IF w = "Were" THEN "were" ELSE w

\* The patterns below take the token vector and the index i (0-based) where
\* the slice they match begins, and return the number of tokens matched.
then_whitespace(toks, i) == IF TokenAt(toks, i).kind = "Space" THEN 1 ELSE 0

then_noun(toks, i) == IF IsNoun(TokenAt(toks, i)) THEN 1 ELSE 0

then_adjective(toks, i) == IF IsAdjective(TokenAt(toks, i)) THEN 1 ELSE 0

then_exact_word(w, toks, i) ==
    IF TokenAt(toks, i).kind = "Word" /\ TokenAt(toks, i).text = w THEN 1 ELSE 0

then_exact_word_or_lowercase(w, toks, i) ==
    IF TokenAt(toks, i).kind = "Word" /\ TokenAt(toks, i).text \in {w, Lowercase(w)}
    THEN 1 ELSE 0

RECURSIVE then_one_or_more_adjectives(_, _)
then_one_or_more_adjectives(toks, i) ==
    IF then_adjective(toks, i) = 0 THEN 0
    ELSE 1 + then_one_or_more_adjectives(toks, i + 1)

\* then_one_or_more_adjectives().then_whitespace().then_noun()
AdjectivesThenNoun(toks, i) ==
    LET a == then_one_or_more_adjectives(toks, i)
        w == IF a = 0 THEN 0 ELSE then_whitespace(toks, i + a)
        n == IF w = 0 THEN 0 ELSE then_noun(toks, i + a + w)
    IN  IF n = 0 THEN 0 ELSE a + w + n

\* then_whitespace().then(EitherPattern [adjectives whitespace noun, noun])
environment(toks, i) ==
    LET w == then_whitespace(toks, i)
        e == IF w = 0 THEN 0
             ELSE IF AdjectivesThenNoun(toks, i + w) # 0
             THEN AdjectivesThenNoun(toks, i + w)
             ELSE then_noun(toks, i + w)
    IN  IF e = 0 THEN 0 ELSE w + e

trigger_words == {"there", "they're"}

\* The WordPatternGroup: the pattern of the word the slice begins with.
primary_pattern(toks, i) ==
    IF TokenAt(toks, i).kind = "Word" /\ TokenAt(toks, i).text \in trigger_words
    THEN LET t == then_exact_word(TokenAt(toks, i).text, toks, i)
             e == IF t = 0 THEN 0 ELSE environment(toks, i + t)
         IN  IF e = 0 THEN 0 ELSE t + e
    ELSE 0

\* EitherPattern [exact word or lowercase "Is", "Were", adjective]
prelude(toks, i) ==
    IF then_exact_word_or_lowercase("Is", toks, i) # 0
    THEN then_exact_word_or_lowercase("Is", toks, i)
    ELSE IF then_exact_word_or_lowercase("Were", toks, i) # 0
    THEN then_exact_word_or_lowercase("Were", toks, i)
    ELSE then_adjective(toks, i)

\* Invert that lets every token through.
Invert_matches_always(inner) == 1

\* Invert::matches, given the length its inner pattern returns on the slice.
Invert_matches(inner) == IF inner # 0 THEN 0 ELSE 1

\* Invert(prelude).then_whitespace().then(primary_pattern)
full_pattern(toks, i) ==
    LET v == Invert_matches(prelude(toks, i))
        w == IF v = 0 THEN 0 ELSE then_whitespace(toks, i + v)
        q == IF w = 0 THEN 0 ELSE primary_pattern(toks, i + v + w)
    IN  IF q = 0 THEN 0 ELSE v + w + q

\* find_all_matches of full_pattern: the windows [i, i + L), left to right.
RECURSIVE UseGenitive_matches(_, _)
UseGenitive_matches(toks, i) ==
    IF i >= Len(toks) THEN <<>>
    ELSE IF full_pattern(toks, i) > 0
    THEN <<[start |-> i, end |-> i + full_pattern(toks, i)]>>
         \o UseGenitive_matches(toks, i + full_pattern(toks, i))
    ELSE UseGenitive_matches(toks, i + 1)

\* The tokens of a window, each with its span.
MatchedTokens(toks, win) ==
    [j \in 1..(win.end - win.start) |->
        [span |-> TokenSpan(win.start + j), tok |-> TokenAt(toks, win.start + j - 1)]]

\* match_to_lint reading the token before the trigger.
match_to_lint_index1(matched_tokens) ==
    IF Len(matched_tokens) < 2 THEN Panic
    ELSE [span |-> matched_tokens[2].span, lint_kind |-> "Miscellaneous",
          suggestions |-> <<ReplaceWith(<<"t", "h", "e", "i", "r">>)>>,
          priority |-> 31]

\* UseGenitive::match_to_lint: `matched_tokens[2]` is the third token of the
\* window; indexing a shorter window panics.
match_to_lint(matched_tokens) ==
    IF Len(matched_tokens) < 3 THEN Panic
    ELSE [span |-> matched_tokens[3].span, lint_kind |-> "Miscellaneous",
          suggestions |-> <<ReplaceWith(<<"t", "h", "e", "i", "r">>)>>,
          priority |-> 31]

\* PatternLinter::lint for UseGenitive: a lint for every window.
UseGenitive_lint(toks) ==
    LET wins == UseGenitive_matches(toks, 0)
        out == [k \in 1..Len(wins) |-> match_to_lint(MatchedTokens(toks, wins[k]))]
    IN  IF \E k \in 1..Len(out) : out[k] = Panic THEN Panic ELSE Some(out)

GenitiveInit ==
    /\ \E sh \in DocumentShapes :
          \E words \in [WordPositions(sh) -> GenitiveWords] :
              ug_tokens = DocumentOf(sh, words)
    /\ ug_lints = NotCalled

GenitiveIdle ==
    /\ ug_tokens = <<>>
    /\ ug_lints = NotCalled

\* A call UseGenitive.lint on a document with the tokens ug_tokens.
UseGenitiveLint ==
    /\ ug_lints = NotCalled
    /\ ug_lints' = UseGenitive_lint(ug_tokens)
    /\ UNCHANGED <<ug_tokens, numVars, snVars, linterVars, mdxVars, applyVars,
                   collapseVars, invertVars>>

MaxSliceLen == 2

\* The inner patterns Invert is given in the model.
InnerPatterns == {"prelude", "whitespace", "noun", "trigger"}

InnerMatches(name, toks) ==
    CASE name = "prelude" -> prelude(toks, 0)
      [] name = "whitespace" -> then_whitespace(toks, 0)
      [] name = "noun" -> then_noun(toks, 0)
      [] name = "trigger" -> primary_pattern(toks, 0)

InvertInit ==
    /\ inv_tokens \in UNION {[1..n -> GenitiveTokenKinds] : n \in 0..MaxSliceLen}
    /\ inv_inner \in InnerPatterns
    /\ inv_ret = NotCalled

InvertIdle ==
    /\ inv_tokens = <<>>
    /\ inv_inner = "prelude"
    /\ inv_ret = NotCalled

\* A call Invert::new(inv_inner).matches(inv_tokens, source).
InvertMatches ==
    /\ inv_ret = NotCalled
    /\ inv_ret' = Some(Invert_matches(InnerMatches(inv_inner, inv_tokens)))
    /\ UNCHANGED <<inv_tokens, inv_inner, numVars, snVars, linterVars, mdxVars,
                   applyVars, collapseVars, genitiveVars>>

(***************************************************************************)
(* Claims about number spelling                                            *)
(***************************************************************************)

\* C3: spell_out_number(n) returns a spelling (Some) for every n in 0..=999
\* and None for every n > 999; no call fails (panics) inside the range.
C3_TotalOnRange ==
    spelled # NotCalled =>
        /\ (num <= 999 => spelled.tag = "Some")
        /\ (num > 999 => spelled = None)

\* C3 witness: the call was made on 999, the top of the range, and on a
\* number above it.
C3_Witness ==
    \/ (num = 999 /\ spelled.tag = "Some")
    \/ (num = 1000 /\ spelled = None)

\* The claim's reading of the split: the largest power of ten not above n,
\* the leading digit times it, and the remainder.
C4_Power(n) == IF n >= 100 THEN 100 ELSE 10
C4_Parent(n) == (n \div C4_Power(n)) * C4_Power(n)
C4_Child(n) == n - C4_Parent(n)

\* C4: a number in 0..=999 that is neither a literal nor a multiple of 100 is
\* spelled spelling(parent) + separator + spelling(child), the separator ' '
\* from 100 up and '-' below; a multiple of 100 is '<digit> hundred'; 82 is
\* 'eighty-two' and 999 is 'nine hundred ninety-nine'.
C4_SplitSpelling ==
    (spelled # NotCalled /\ num <= 999 /\ num \notin LiteralNumbers) =>
        /\ spelled.tag = "Some"
        /\ (num % 100 = 0 =>
                spelled.val = LiteralName(num \div 100) \o " hundred")
        /\ (num % 100 # 0 =>
                /\ spell_out_number(C4_Parent(num)).tag = "Some"
                /\ spell_out_number(C4_Child(num)).tag = "Some"
                /\ spelled.val =
                      spell_out_number(C4_Parent(num)).val
                      \o (IF num >= 100 THEN " " ELSE "-")
                      \o spell_out_number(C4_Child(num)).val)
        /\ (num = 82 => spelled.val = "eighty-two")
        /\ (num = 999 => spelled.val = "nine hundred ninety-nine")

\* C4 witness: 999 was spelled through two splits.
C4_Witness == num = 999 /\ spelled = Some("nine hundred ninety-nine")

\* C17: for every n in 0..=999 the recursion of spell_out_number is at most
\* 3 calls deep, the call on n counted as the first, every recursive call is
\* on a strictly smaller argument in 0..=999, and no inner unwrap fails.
C17_RecursionBounded ==
    (spelled # NotCalled /\ num <= 999) =>
        /\ CallDepth(num, DepthLimit) <= 3
        /\ \A m \in RecursiveCalls(num) : m < num /\ m \in 0..999
        /\ spelled # Panic

C17_Witness ==
    /\ spelled # NotCalled
    /\ num = 999
    /\ CallDepth(num, DepthLimit) = 3

(***************************************************************************)
(* Claims about SpelledNumbers                                             *)
(***************************************************************************)

\* The lints of a result whose span is token i's.
C5_LintsAt(out, i) == {k \in 1..Len(out) : out[k].span = TokenSpan(i)}

\* C5: SpelledNumbers.lint emits exactly one lint for every Number token whose
\* value is an integer less than 10, with the token's span and the single
\* suggestion ReplaceWith(spelled form), and no lint for a Number token whose
\* value is 10 or more or is not an integer.
C5_OneLintPerSmallInteger ==
    sn_lints # NotCalled =>
        /\ sn_lints.tag = "Some"
        /\ \A i \in 1..Len(document) :
              document[i].kind = "Number" =>
                  LET v == document[i].value
                      at == C5_LintsAt(sn_lints.val, i)
                  IN  IF v.frac = 0 /\ v.whole < 10
                      THEN /\ Cardinality(at) = 1
                           /\ \A k \in at :
                                 sn_lints.val[k].suggestions =
                                     <<[kind |-> "ReplaceWith",
                                        text |-> LiteralName(v.whole)]>>
                      ELSE at = {}

\* C16: SpelledNumbers.lint never panics, and a Number token whose value
\* spell_out_number does not spell (it returns None) gets no lint.
C16_NeverPanics ==
    sn_lints # NotCalled =>
        /\ sn_lints # Panic
        /\ \A i \in 1..Len(document) :
              (document[i].kind = "Number"
                  /\ spell_out_number(AsU64(document[i].value)) = None)
              => C5_LintsAt(sn_lints.val, i) = {}

C16_Witness ==
    /\ sn_lints # NotCalled
    /\ sn_lints # Panic
    /\ \E i \in 1..Len(document) :
          /\ document[i].kind = "Number"
          /\ document[i].value.whole = UnspellableNumber

(***************************************************************************)
(* Claims about the Linter, the LintGroup and the overlap resolver         *)
(***************************************************************************)

\* Two spans share at least one character position.
C1_SharePosition(a, b) ==
    \E x \in 0..MaxPos :
        /\ a.start <= x /\ x < a.end
        /\ b.start <= x /\ x < b.end

\* C1: the list remove_overlaps leaves, as Linter.lint calls it on the merged
\* LintGroup output, holds no two lints whose spans share a character position.
C1_NoOverlapLeft ==
    ret.op = "lint" =>
        \A i, j \in 1..Len(ret.lints) :
            i < j => ~C1_SharePosition(ret.lints[i].span, ret.lints[j].span)

\* C1 witness: the merged list held overlapping lints and the resolver kept
\* two lints of it.
C1_Witness ==
    /\ ret.op = "lint"
    /\ \E i, j \in 1..Len(ret.group_lints) :
          i < j /\ C1_SharePosition(ret.group_lints[i].span, ret.group_lints[j].span)
    /\ Len(ret.lints) = 2

\* The claim's reading of "the rule runs": its field is Some(true), or None
\* with a built-in default of true.
C6_Runs(cfg, f) ==
    \/ cfg[f] = Some(TRUE)
    \/ (cfg[f] = None /\ FieldDefault(f))

\* The lints of the rules that run, concatenated in declaration order with
\* spell_check last.
RECURSIVE C6_Concat(_, _, _)
C6_Concat(cfg, d, i) ==
    IF i = 0 THEN <<>>
    ELSE C6_Concat(cfg, d, i - 1)
         \o (IF C6_Runs(cfg, FieldOrder[i]) THEN d[FieldOrder[i]] ELSE <<>>)

\* C6: LintGroup.lint runs a rule exactly when its field is Some(true), or None
\* with a default of true; a Some(false) rule contributes nothing; the result
\* is the concatenation of the lints of the rules that ran, in declaration
\* order with spell_check last.
C6_EnabledRulesConcatenated ==
    ret.op = "lint" =>
        /\ ret.group_lints = C6_Concat(config, doc, Len(FieldOrder))
        /\ FieldOrder[Len(FieldOrder)] = "spell_check"
        /\ \A f \in Fields :
              config[f] = Some(FALSE) =>
                  \A k \in 1..Len(ret.group_lints) : ret.group_lints[k].rule # f

\* C6 witness: lint ran with a default-off rule switched on, a default-on rule
\* switched off, the other fields left to their defaults, on a document where
\* every rule finds a lint.
C6_Witness ==
    /\ ret.op = "lint"
    /\ config["spelled_numbers"] = Some(TRUE)
    /\ config["spell_check"] = Some(FALSE)
    /\ config["an_a"] = None
    /\ doc = SampleDoc(1)
    /\ Len(ret.group_lints) > 1

\* C7: a LintGroup.lint call leaves the stored config unchanged: every field
\* that was None before the call is None after it.
C7_LintKeepsStoredConfig ==
    [][ret'.op = "lint" =>
          /\ config' = config
          /\ \A f \in Fields : config[f] = None => config'[f] = None]_vars

\* C7 witness: lint ran the default-on rule an_a while its stored field is
\* still None.
C7_Witness ==
    /\ ret.op = "lint"
    /\ config["an_a"] = None
    /\ \E k \in 1..Len(ret.group_lints) : ret.group_lints[k].rule = "an_a"

\* C9: a set call whose payload fails to deserialize returns an error string
\* and leaves the stored config as it was; after any sequence of calls the
\* stored config is the last payload that parsed, or the default.
C9_FailedSetKeepsConfig ==
    [][/\ config' = last_ok'
       /\ ret'.op \in {"set_lint_config_from_json", "set_lint_config_from_object"} =>
             IF parse_failed'
             THEN ret'.result.tag = "Err" /\ config' = config
             ELSE ret'.result.tag = "Ok"]_vars

\* C9 witness: a set call failed after an earlier one had changed the config.
C9_Witness ==
    /\ ret.op \in {"set_lint_config_from_json", "set_lint_config_from_object"}
    /\ ret.result.tag = "Err"
    /\ config # DefaultConfig

(***************************************************************************)
(* Claims about the MDX pre-cleaner                                        *)
(***************************************************************************)

\* C2: clean_mdx_content(T) returns a string with the same number of
\* characters (code points) as T, also when T holds emoji, non-ASCII
\* characters inside link/image targets or code, HTML tags with attributes,
\* and inline code.
C2_SameCharacterCount ==
    cleaned # NotCalled => Len(cleaned.val) = Len(mdx)

(***************************************************************************)
(* Claims about apply_suggestion                                           *)
(***************************************************************************)

C10_CollapsedRuns == Replacements(inner_parse(source), source, dict)

\* Token i of the inner parser's output lies inside a collapsed run.
C10_InCollapsedRun(i) ==
    \E j \in 1..Len(C10_CollapsedRuns) :
        C10_CollapsedRuns[j].s <= i /\ i < C10_CollapsedRuns[j].e

\* C10: for every run Word (separator Word)+ whose characters are in the
\* dictionary, the output holds a single Word token spanning exactly the run,
\* and every token of the inner parser's output outside the runs (the token
\* right after a run among them) is still present and unchanged.
C10_RunCollapsedRestKept ==
    parsed # NotCalled =>
        LET toks == inner_parse(source)
            out == parsed.val
        IN  /\ \A j \in 1..Len(C10_CollapsedRuns) :
                  Cardinality({k \in 1..Len(out) : out[k] = C10_CollapsedRuns[j].t}) = 1
            /\ \A i \in 0..(Len(toks) - 1) :
                  ~C10_InCollapsedRun(i) =>
                      \E k \in 1..Len(out) : out[k] = TokenAt(toks, i)

\* C11: the tokens parse returns are sorted, do not overlap and cover every
\* character of the buffer exactly once: each token's span is non-empty, the
\* first starts at 0, each starts where the one before ends, and the last
\* ends at the length of the source.
C11_OutputCoversBuffer ==
    parsed # NotCalled =>
        LET out == parsed.val
        IN  /\ (Len(out) = 0) = (Len(source) = 0)
            /\ \A k \in 1..Len(out) :
                  /\ out[k].span.start < out[k].span.end
                  /\ out[k].span.start = (IF k = 1 THEN 0 ELSE out[k - 1].span.end)
            /\ Len(out) > 0 => out[Len(out)].span.end = Len(source)

\* Tokens i..j of the inner parser's output are words joined by single case
\* separators.
C12_IsRun(i, j) ==
    LET toks == inner_parse(source)
    IN  /\ i < j
        /\ (j - i) % 2 = 0
        /\ \A x \in i..j :
              IF (x - i) % 2 = 0 THEN TokenAt(toks, x).kind = "Word"
              ELSE TokenAt(toks, x).kind \in {"Underscore", "Hyphen"}

\* The maximal runs Word (separator Word)+ of the inner parser's output, each
\* with its token window [s, e), the Word token spanning it and its string.
C12_Runs ==
    LET toks == inner_parse(source)
        span(i, j) == [start |-> TokenAt(toks, i).span.start,
                       end |-> TokenAt(toks, j).span.end]
    IN  {[s |-> p[1], e |-> p[2] + 1,
          t |-> [span |-> span(p[1], p[2]), kind |-> "Word"],
          st |-> ContentString(source, span(p[1], p[2]))] :
            p \in {q \in (0..(Len(toks) - 1)) \X (0..(Len(toks) - 1)) :
                    /\ C12_IsRun(q[1], q[2])
                    /\ ~C12_IsRun(q[1] - 2, q[2])
                    /\ ~C12_IsRun(q[1], q[2] + 2)}}

\* A shorter run inside the run r is in the dictionary.
C12_InnerRunInDict(r) ==
    LET toks == inner_parse(source)
    IN  \E i \in r.s..(r.e - 1), j \in r.s..(r.e - 1) :
            /\ i < j
            /\ <<i, j>> # <<r.s, r.e - 1>>
            /\ TokenAt(toks, i).kind = "Word"
            /\ TokenAt(toks, j).kind = "Word"
            /\ ContentString(source, [start |-> TokenAt(toks, i).span.start,
                                      end |-> TokenAt(toks, j).span.end]) \in dict

\* The tokens of the output that lie inside the characters of the run r.
C12_OutputInside(r) ==
    {k \in 1..Len(parsed.val) :
        /\ r.t.span.start <= parsed.val[k].span.start
        /\ parsed.val[k].span.end <= r.t.span.end}

\* C12: when a whole run and a shorter run inside it are both in the
\* dictionary, the whole run becomes one Word token and the shorter run is
\* not collapsed separately: the one token of the output inside the run's
\* characters is the Word token spanning the whole run.
C12_LongestRunWins ==
    parsed # NotCalled =>
        \A r \in C12_Runs :
            (r.st \in dict /\ C12_InnerRunInDict(r)) =>
                /\ Cardinality(C12_OutputInside(r)) = 1
                /\ \A k \in C12_OutputInside(r) : parsed.val[k] = r.t

C12_Witness ==
    /\ parsed # NotCalled
    /\ \E r \in C12_Runs :
          /\ r.st \in dict
          /\ C12_InnerRunInDict(r)
          /\ r.e - r.s >= 5

\* The tokens of the run r stand in the output, next to each other and as the
\* inner parser made them.
C13_RunUnchanged(r) ==
    LET toks == inner_parse(source)
    IN  \E off \in 0..Len(parsed.val) :
            \A i \in r.s..(r.e - 1) :
                /\ off + (i - r.s) + 1 <= Len(parsed.val)
                /\ parsed.val[off + (i - r.s) + 1] = TokenAt(toks, i)

\* C13: a maximal run whose string is not in the dictionary comes out as the
\* inner parser's tokens, unchanged, also when shorter runs inside it are in
\* the dictionary; with no run in the input the output is the inner parser's
\* output.
C13_UnknownRunLeftAlone ==
    parsed # NotCalled =>
        /\ \A r \in C12_Runs : r.st \notin dict => C13_RunUnchanged(r)
        /\ C12_Runs = {} => parsed.val = inner_parse(source)

C13_Witness ==
    /\ parsed # NotCalled
    /\ \E r \in C12_Runs :
          /\ r.st \notin dict
          /\ C12_InnerRunInDict(r)

(***************************************************************************)
(* Claims about UseGenitive and Invert                                     *)
(***************************************************************************)

\* Token t (0-based) of the document is a trigger word.
C14_TriggerAt(t) ==
    TokenAt(ug_tokens, t).kind = "Word"
        /\ TokenAt(ug_tokens, t).text \in {"there", "they're"}

\* From token j on stands a noun, or one or more adjectives, whitespace and a
\* noun.
C14_NounPhraseAt(j) ==
    \/ IsNoun(TokenAt(ug_tokens, j))
    \/ \E a \in 1..Len(ug_tokens) :
          /\ \A x \in j..(j + a - 1) : IsAdjective(TokenAt(ug_tokens, x))
          /\ TokenAt(ug_tokens, j + a).kind = "Space"
          /\ IsNoun(TokenAt(ug_tokens, j + a + 1))

\* The trigger at token t is followed by whitespace and a noun phrase.
C14_Followed(t) ==
    TokenAt(ug_tokens, t + 1).kind = "Space" /\ C14_NounPhraseAt(t + 2)

\* C14: every lint of UseGenitive has the span of the trigger word of its
\* match and the single suggestion ReplaceWith("their"); in every window the
\* full pattern matches, the token at index 2 exists and is the trigger word,
\* followed by whitespace and a noun or adjectives, whitespace and a noun.
C14_LintAtTrigger ==
    ug_lints # NotCalled =>
        /\ ug_lints.tag = "Some"
        /\ \A k \in 1..Len(ug_lints.val) :
              /\ ug_lints.val[k].suggestions = <<ReplaceWith(<<"t", "h", "e", "i", "r">>)>>
              /\ \E t \in 0..(Len(ug_tokens) - 1) :
                    /\ ug_lints.val[k].span = TokenSpan(t + 1)
                    /\ C14_TriggerAt(t)
                    /\ C14_Followed(t)
        /\ \A n \in 1..Len(UseGenitive_matches(ug_tokens, 0)) :
              LET win == UseGenitive_matches(ug_tokens, 0)[n]
              IN  /\ win.start + 2 < win.end
                  /\ win.end <= Len(ug_tokens)
                  /\ C14_TriggerAt(win.start + 2)
                  /\ C14_Followed(win.start + 2)

C14_Witness ==
    /\ ug_lints # NotCalled
    /\ ug_lints.tag = "Some"
    /\ \E k \in 1..Len(ug_lints.val), t \in 0..(Len(ug_tokens) - 1) :
          /\ ug_lints.val[k].span = TokenSpan(t + 1)
          /\ TokenAt(ug_tokens, t).text = "they're"
          /\ IsAdjective(TokenAt(ug_tokens, t + 2))

\* Token t is 'Is'/'is', 'Were'/'were' or an adjective.
C15_PreludeWordAt(t) ==
    /\ TokenAt(ug_tokens, t).kind = "Word"
    /\ \/ TokenAt(ug_tokens, t).text \in {"Is", "is", "Were", "were"}
       \/ IsAdjective(TokenAt(ug_tokens, t))

\* No lint of the result has the span of token t.
C15_NoLintAt(t) ==
    /\ ug_lints.tag = "Some"
    /\ \A k \in 1..Len(ug_lints.val) : ug_lints.val[k].span # TokenSpan(t + 1)

\* Token t is the first word of the document.
C15_FirstWord(t) == \A x \in 0..(t - 1) : TokenAt(ug_tokens, x).kind # "Word"

\* C15: UseGenitive produces no lint for a trigger word when the token two
\* positions before it is 'Is'/'is', 'Were'/'were' or an adjective, when the
\* trigger is not followed by whitespace and a noun phrase, or when the
\* trigger is the first word of the document.
C15_NoLintFirstWord ==
    ug_lints # NotCalled =>
        \A t \in 0..(Len(ug_tokens) - 1) :
            (C14_TriggerAt(t)
                /\ (C15_PreludeWordAt(t - 2) \/ ~C14_Followed(t) \/ C15_FirstWord(t)))
            => C15_NoLintAt(t)

\* C15 as amended: UseGenitive produces no lint for a trigger word when the
\* token two positions before it is 'Is'/'is', 'Were'/'were' or an adjective,
\* when the trigger is not followed by whitespace and a noun phrase, or when
\* the trigger is the first or the second token of the document.
C15_NoLintFirstTokens ==
    ug_lints # NotCalled =>
        \A t \in 0..(Len(ug_tokens) - 1) :
            (C14_TriggerAt(t)
                /\ (C15_PreludeWordAt(t - 2) \/ ~C14_Followed(t) \/ t < 2))
            => C15_NoLintAt(t)

C15_Witness ==
    /\ ug_lints # NotCalled
    /\ \E t \in 2..(Len(ug_tokens) - 1) :
          /\ C14_TriggerAt(t)
          /\ C15_PreludeWordAt(t - 2)
          /\ TokenAt(ug_tokens, t - 1).kind = "Space"
          /\ C14_Followed(t)
          /\ C15_NoLintAt(t)

\* C18: the length Invert.matches returns never exceeds the number of tokens
\* of the slice, the empty slice included; it is 1 exactly when the inner
\* pattern returns 0 and 0 otherwise.
C18_InvertWithinSlice ==
    inv_ret # NotCalled =>
        /\ inv_ret.val <= Len(inv_tokens)
        /\ inv_ret.val = (IF InnerMatches(inv_inner, inv_tokens) = 0 THEN 1 ELSE 0)

(***************************************************************************)
(* Specifications                                                          *)
(***************************************************************************)

InitNumbers == NumInit /\ SnIdle /\ LinterIdle /\ MdxIdle /\ ApplyIdle /\ CollapseIdle /\ GenitiveIdle /\ InvertIdle
NextNumbers == SpellOutNumber
SpecNumbers == InitNumbers /\ [][NextNumbers]_vars

InitSpelledNumbers == SnInit /\ NumIdle /\ LinterIdle /\ MdxIdle /\ ApplyIdle
                      /\ CollapseIdle /\ GenitiveIdle /\ InvertIdle
NextSpelledNumbers == SpelledNumbersLint
SpecSpelledNumbers == InitSpelledNumbers /\ [][NextSpelledNumbers]_vars

InitLinter == LinterNew /\ doc \in SampleDocs /\ NumIdle /\ SnIdle /\ MdxIdle /\ ApplyIdle /\ CollapseIdle /\ GenitiveIdle /\ InvertIdle
NextLinter ==
    \/ \E payload \in Payloads : SetLintConfigFromJson(payload)
    \/ \E payload \in Payloads : SetLintConfigFromObject(payload)
    \/ GetLintConfigAsJson
    \/ LinterLint
SpecLinter == InitLinter /\ [][NextLinter]_vars

InitOverlaps ==
    /\ LinterNew
    /\ \E ls \in OverlapLintLists : doc = OverlapDoc(ls)
    /\ NumIdle /\ SnIdle /\ MdxIdle /\ ApplyIdle /\ CollapseIdle /\ GenitiveIdle /\ InvertIdle
NextOverlaps == LinterLint
SpecOverlaps == InitOverlaps /\ [][NextOverlaps]_vars

InitMdx == MdxInit /\ NumIdle /\ SnIdle /\ LinterIdle /\ ApplyIdle /\ CollapseIdle /\ GenitiveIdle /\ InvertIdle
NextMdx == CleanMdxContent
SpecMdx == InitMdx /\ [][NextMdx]_vars

InitApply == ApplyInit /\ NumIdle /\ SnIdle /\ LinterIdle /\ MdxIdle /\ CollapseIdle
             /\ GenitiveIdle /\ InvertIdle
NextApply == ApplySuggestion
SpecApply == InitApply /\ [][NextApply]_vars

InitCollapse == CollapseInit /\ NumIdle /\ SnIdle /\ LinterIdle /\ MdxIdle /\ ApplyIdle
                /\ GenitiveIdle /\ InvertIdle
NextCollapse == CollapseParse
SpecCollapse == InitCollapse /\ [][NextCollapse]_vars

InitGenitive == GenitiveInit /\ NumIdle /\ SnIdle /\ LinterIdle /\ MdxIdle /\ ApplyIdle
                /\ CollapseIdle /\ InvertIdle
NextGenitive == UseGenitiveLint
SpecGenitive == InitGenitive /\ [][NextGenitive]_vars

InitInvert == InvertInit /\ NumIdle /\ SnIdle /\ LinterIdle /\ MdxIdle /\ ApplyIdle
              /\ CollapseIdle /\ GenitiveIdle
NextInvert == InvertMatches
SpecInvert == InitInvert /\ [][NextInvert]_vars

====
